---- MODULE Spec2Model ----
(***************************************************************************)
(* A model of PiFire's PID controller (pid.py) and of the PWM fan ramp of  *)
(* the PiFire PWM platform (grillplat/pifire_pwm.py).                      *)
(*                                                                         *)
(* Numbers of the PID controller are exact rationals <<n, d>> in lowest    *)
(* terms with d > 0.  An attribute that has not been assigned yet is the   *)
(* value Unset.  Time is counted in ticks of the clock's resolution, so    *)
(* two readings of time.time() can be equal.                               *)
(***************************************************************************)
EXTENDS Integers, Sequences, FiniteSets, TLC

VARIABLES pid, constructed, call, now, calls,
          fan, pwm, current_fan_speed_percent, _ramp_thread, threads, ctl, stopped,
          ramp_in, ramp_out

pidVars == <<pid, constructed, call, now, calls>>
platVars == <<fan, pwm, current_fan_speed_percent, _ramp_thread, threads, ctl, stopped>>
seqVars == <<ramp_in, ramp_out>>
vars == <<pidVars, platVars, seqVars>>

-----------------------------------------------------------------------------
(* Bounds of the model *)

MaxTime == 2
MaxCalls == 3
MaxRamps == 2
MaxHalfFrames == 8

-----------------------------------------------------------------------------
(* Rational arithmetic *)

Abs(n) == IF n < 0 THEN -n ELSE n

RECURSIVE Gcd(_, _)
Gcd(a, b) == IF b = 0 THEN a ELSE Gcd(b, a % b)

Norm(n, d) ==
    LET g == Gcd(Abs(n), Abs(d))
        s == IF d < 0 THEN -1 ELSE 1
    IN  <<(s * n) \div g, (s * d) \div g>>

R(n) == <<n, 1>>
Unset == <<0, 0>>
IsNumber(x) == x[2] > 0

RAdd(x, y) == Norm(x[1] * y[2] + y[1] * x[2], x[2] * y[2])
RSub(x, y) == Norm(x[1] * y[2] - y[1] * x[2], x[2] * y[2])
RMul(x, y) == Norm(x[1] * y[1], x[2] * y[2])
RDiv(x, y) == Norm(x[1] * y[2], x[2] * y[1])
RNeg(x) == <<-x[1], x[2]>>
RAbs(x) == <<Abs(x[1]), x[2]>>
RLe(x, y) == x[1] * y[2] <= y[1] * x[2]
RLt(x, y) == x[1] * y[2] < y[1] * x[2]
RMax(x, y) == IF RLe(x, y) THEN y ELSE x
RMin(x, y) == IF RLe(x, y) THEN x ELSE y
RIsZero(x) == x[1] = 0

-----------------------------------------------------------------------------
(* Inputs *)

Gains == {0, 1, 2}
DerivTimes == {0, 1}
Centers == {R(0), <<1, 2>>}
Measurements == {R(149), R(152)}
Targets == {R(0), R(150)}
Times == 0 .. MaxTime

-----------------------------------------------------------------------------
(* class PID *)

NewPID ==
    [kp |-> Unset, ki |-> Unset, kd |-> Unset,
     p |-> Unset, i |-> Unset, d |-> Unset, u |-> Unset,
     last_update |-> 0, error |-> Unset, set_point |-> Unset,
     center |-> Unset, derv |-> Unset, inter |-> Unset,
     inter_max |-> Unset, last |-> Unset]

Ok(self) == [self |-> self, raised |-> "none"]
Raise(self, exc) == [self |-> self, raised |-> exc]

(* _calculate_gains with the sign of kp lost *)
_calculate_gains_sign(self, pb, ti, td) ==
    IF pb = 0 THEN Raise(self, "ZeroDivisionError")
    ELSE LET s1 == [self EXCEPT !.kp = RDiv(R(1), R(pb))]
         IN  IF ti = 0 THEN Raise(s1, "ZeroDivisionError")
             ELSE LET s2 == [s1 EXCEPT !.ki = RDiv(s1.kp, R(ti))]
                  IN  Ok([s2 EXCEPT !.kd = RMul(s2.kp, R(td))])

(* _calculate_gains with the ZeroDivisionError caught and dropped *)
_calculate_gains_swallow(self, pb, ti, td) ==
    IF pb = 0 THEN Ok(self)
    ELSE LET s1 == [self EXCEPT !.kp = RDiv(R(-1), R(pb))]
         IN  IF ti = 0 THEN Ok(s1)
             ELSE LET s2 == [s1 EXCEPT !.ki = RDiv(s1.kp, R(ti))]
                  IN  Ok([s2 EXCEPT !.kd = RMul(s2.kp, R(td))])

(* _calculate_gains: each division raises ZeroDivisionError on a zero divisor *)
_calculate_gains(self, pb, ti, td) ==
    IF pb = 0 THEN Raise(self, "ZeroDivisionError")
    ELSE LET s1 == [self EXCEPT !.kp = RDiv(R(-1), R(pb))]
         IN  IF ti = 0 THEN Raise(s1, "ZeroDivisionError")
             ELSE LET s2 == [s1 EXCEPT !.ki = RDiv(s1.kp, R(ti))]
                  IN  Ok([s2 EXCEPT !.kd = RMul(s2.kp, R(td))])

(* set_target without the reset of inter *)
set_target_keep_inter(self, set_point, t) ==
    [self EXCEPT !.set_point = set_point,
                 !.error = R(0),
                 !.derv = R(0),
                 !.last_update = t]

set_target(self, set_point, t) ==
    [self EXCEPT !.set_point = set_point,
                 !.error = R(0),
                 !.inter = R(0),
                 !.derv = R(0),
                 !.last_update = t]

set_gains(self, pb, ti, td) ==
    LET g == _calculate_gains(self, pb, ti, td)
    IN  IF g.raised # "none" THEN g
        ELSE IF RIsZero(g.self.ki) THEN Raise(g.self, "ZeroDivisionError")
        ELSE Ok([g.self EXCEPT !.inter_max = RAbs(RDiv(g.self.center, g.self.ki))])

(* __init__; t is the reading of time.time() at line 40, t2 the one in set_target *)
PIDInit(pb, ti, td, center, t, t2) ==
    LET g == _calculate_gains(NewPID, pb, ti, td)
    IN  IF g.raised # "none" THEN g
        ELSE LET s1 == [g.self EXCEPT !.p = R(0), !.i = R(0), !.d = R(0), !.u = R(0),
                                      !.last_update = t,
                                      !.error = R(0),
                                      !.set_point = R(0),
                                      !.center = center,
                                      !.derv = R(0),
                                      !.inter = R(0)]
             IN  IF RIsZero(s1.ki) THEN Raise(s1, "ZeroDivisionError")
                 ELSE LET s2 == [s1 EXCEPT !.inter_max = RAbs(RDiv(s1.center, s1.ki)),
                                           !.last = R(150)]
                      IN  Ok(set_target(s2, R(0), t2))

(* the clamp without its upper limit *)
clamp_nomin(inter, inter_max) == RMax(inter, RNeg(inter_max))

(* lines 68-69 of update: max with -inter_max, then min with inter_max *)
clamp(inter, inter_max) == RMin(RMax(inter, RNeg(inter_max)), inter_max)

(* update with the derivative taken on the error *)
update_derv_on_error(self, current, t, t2) ==
    LET error == RSub(current, self.set_point)
        s1 == [self EXCEPT !.p = RAdd(RMul(self.kp, error), self.center)]
        dt == t - self.last_update
        s2 == [s1 EXCEPT !.inter = RAdd(s1.inter, RMul(error, R(dt)))]
        s4 == [s2 EXCEPT !.inter = clamp(s2.inter, s2.inter_max)]
        s5 == [s4 EXCEPT !.i = RMul(s4.ki, s4.inter)]
    IN  IF dt = 0 THEN Raise(s5, "ZeroDivisionError")
        ELSE LET s6 == [s5 EXCEPT !.derv = RDiv(RSub(error, s5.error), R(dt))]
                 s7 == [s6 EXCEPT !.d = RMul(s6.kd, s6.derv)]
                 s8 == [s7 EXCEPT !.u = RAdd(RAdd(s7.p, s7.i), s7.d)]
             IN  Ok([s8 EXCEPT !.error = error,
                               !.last = current,
                               !.last_update = t2])

(* update; t is the reading of time.time() at line 65, t2 the one at line 83 *)
update(self, current, t, t2) ==
    LET error == RSub(current, self.set_point)
        s1 == [self EXCEPT !.p = RAdd(RMul(self.kp, error), self.center)]
        dt == t - self.last_update
        s2 == [s1 EXCEPT !.inter = RAdd(s1.inter, RMul(error, R(dt)))]
        s4 == [s2 EXCEPT !.inter = clamp(s2.inter, s2.inter_max)]
        s5 == [s4 EXCEPT !.i = RMul(s4.ki, s4.inter)]
    IN  IF dt = 0 THEN Raise(s5, "ZeroDivisionError")
        ELSE LET s6 == [s5 EXCEPT !.derv = RDiv(RSub(current, s5.last), R(dt))]
                 s7 == [s6 EXCEPT !.d = RMul(s6.kd, s6.derv)]
                 s8 == [s7 EXCEPT !.u = RAdd(RAdd(s7.p, s7.i), s7.d)]
             IN  Ok([s8 EXCEPT !.error = error,
                               !.last = current,
                               !.last_update = t2])

get_k(self) == <<self.kp, self.ki, self.kd>>

-----------------------------------------------------------------------------
(* The PID controller driven by its caller *)

NoArgs == [pb |-> 0, ti |-> 0, td |-> 0, x |-> R(0), dt |-> 0]

InitPIDVars ==
    \E pb \in Gains, ti \in Gains, td \in DerivTimes, center \in Centers :
        LET r == PIDInit(pb, ti, td, center, 0, 0)
        IN  /\ pid = r.self
            /\ constructed = (r.raised = "none")
            /\ call = [op |-> "__init__", raised |-> r.raised,
                       args |-> [NoArgs EXCEPT !.pb = pb, !.ti = ti, !.td = td, !.x = center]]
            /\ now = 0
            /\ calls = 0

Update(current, t, t2) ==
    /\ constructed
    /\ calls < MaxCalls
    /\ calls' = calls + 1
    /\ now <= t /\ t <= t2
    /\ LET r == update(pid, current, t, t2)
       IN  /\ pid' = r.self
           /\ call' = [op |-> "update", raised |-> r.raised,
                       args |-> [NoArgs EXCEPT !.x = current, !.dt = t - pid.last_update]]
    /\ now' = t2
    /\ UNCHANGED <<constructed, platVars, seqVars>>

SetTarget(x, t) ==
    /\ constructed
    /\ calls < MaxCalls
    /\ calls' = calls + 1
    /\ now <= t
    /\ pid' = set_target(pid, x, t)
    /\ call' = [op |-> "set_target", raised |-> "none",
                args |-> [NoArgs EXCEPT !.x = x]]
    /\ now' = t
    /\ UNCHANGED <<constructed, platVars, seqVars>>

SetGains(pb, ti, td) ==
    /\ constructed
    /\ calls < MaxCalls
    /\ calls' = calls + 1
    /\ LET r == set_gains(pid, pb, ti, td)
       IN  /\ pid' = r.self
           /\ call' = [op |-> "set_gains", raised |-> r.raised,
                       args |-> [NoArgs EXCEPT !.pb = pb, !.ti = ti, !.td = td]]
    /\ UNCHANGED <<constructed, now, platVars, seqVars>>

NextPID ==
    \/ \E current \in Measurements, t \in Times, t2 \in Times : Update(current, t, t2)
    \/ \E x \in Targets, t \in Times : SetTarget(x, t)
    \/ \E pb \in Gains, ti \in Gains, td \in DerivTimes : SetGains(pb, ti, td)

-----------------------------------------------------------------------------
(* class GrillPlatform with dc_fan = True: the fan pin, the hardware PWM,  *)
(* the ramp threads and the control thread that calls the platform.        *)
(* Percentages are rationals.  A thread object is named by its number;     *)
(* None is 0.                                                              *)

FPS == 25
None == 0
ThreadIds == 1 .. MaxRamps

Speeds == {R(30)}
Frequencies == {30}
(* <<on_time, min_duty_cycle, max_duty_cycle>> *)
RampArgs == {<<<<4, 25>>, 50, 100>>, <<<<1, 25>>, 0, 0>>}
NoRamp == <<R(0), 0, 0>>

(* int(): truncation towards zero *)
Trunc(x) == IF x[1] >= 0 THEN x[1] \div x[2] ELSE -((-x[1]) \div x[2])

(* round(x, 4): the nearest multiple of 1/10000, a tie going to the even one *)
Round4(x) ==
    LET y == RMul(x, R(10000))
        f == y[1] \div y[2]
        twice == RSub(RMul(y, R(2)), R(2 * f))
        n == IF RLt(twice, R(1)) THEN f
             ELSE IF RLt(R(1), twice) THEN f + 1
             ELSE IF f % 2 = 0 THEN f ELSE f + 1
    IN  Norm(n, 10000)

(* lines 173-176: the values for the indices lo .. hi - 1 *)
RampValues(lo, hi, duty_cycle, on_time) ==
    IF lo >= hi THEN <<>>
    ELSE [n \in 1 .. hi - lo |->
             RSub(R(1), RDiv(RMul(R(lo + n - 1), RDiv(duty_cycle, R(FPS))), on_time))]

(* lines 170-177 of _ramp_device: the sequence of values, or the error raised *)
RampSequence(on_time, min_duty_cycle, max_duty_cycle) ==
    LET duty_cycle == RDiv(R(max_duty_cycle), R(100))
    IN  IF max_duty_cycle = 0 THEN [raised |-> "ZeroDivisionError", sequence |-> <<>>]
        ELSE LET lo == Trunc(RMul(RMul(R(FPS), on_time),
                                RDiv(R(min_duty_cycle), R(max_duty_cycle))))
                 hi == Trunc(RMul(R(FPS), on_time))
             IN  IF lo < hi /\ RIsZero(on_time)
                 THEN [raised |-> "ZeroDivisionError", sequence |-> <<>>]
                 ELSE [raised |-> "none",
                       sequence |-> RampValues(lo, hi, duty_cycle, on_time)
                                    \o <<RSub(R(1), duty_cycle)>>]

(* lines 180-181: the fan speed percent of a value of the sequence *)
FanSpeedPercent(value) == RSub(R(100), RMul(Round4(value), R(100)))

(* lines 86 and 107: the PWM duty cycle of a fan speed percent *)
PwmDutyCycle(fan_speed_percent) == RSub(R(100), fan_speed_percent)

NoThread ==
    [state |-> "unborn", stopping |-> FALSE, pc |-> "none", args |-> NoRamp,
     sequence |-> <<>>, k |-> 0, raised |-> "none", written |-> <<>>, kstop |-> 0]

Alive(t) == threads[t].state = "running"

(* Instructions of the control thread, in the order the methods run them *)
I(i, v) == [i |-> i, v |-> v]

(* a _stop_ramp that also stops the PWM *)
stop_ramp_code_pwm_stop ==
    <<I("stop.set", R(0)), I("stop.join", R(0)), I("stop.clear", R(0)), I("pwm.stop", R(0))>>

(* _stop_ramp, lines 165-167 *)
stop_ramp_code == <<I("stop.set", R(0)), I("stop.join", R(0)), I("stop.clear", R(0))>>

fan_on_code(fan_speed_percent) ==
    <<I("fan.on", R(0))>> \o stop_ramp_code
    \o <<I("pwm.start", PwmDutyCycle(fan_speed_percent)), I("cur", fan_speed_percent)>>

fan_off_code == <<I("fan.off", R(0)), I("pwm.stop", R(0)), I("cur", R(0))>>

(* set_duty_cycle that leaves a running ramp alone *)
set_duty_cycle_code_keep_ramp(fan_speed_percent) ==
    <<I("pwm.change", PwmDutyCycle(fan_speed_percent)), I("cur", fan_speed_percent)>>

(* set_duty_cycle with override_ramping=True, lines 104-109 *)
set_duty_cycle_code(fan_speed_percent) ==
    stop_ramp_code
    \o <<I("pwm.change", PwmDutyCycle(fan_speed_percent)), I("cur", fan_speed_percent)>>

set_pwm_frequency_code(frequency) == <<I("pwm.freq", R(frequency))>>

start_ramp_code(min_duty_cycle, background) ==
    stop_ramp_code \o fan_on_code(R(min_duty_cycle))
    \o <<I("thread.new", R(0)), I("thread.start", R(0))>>
    \o (IF background THEN <<>> ELSE <<I("thread.join", R(0)), I("stop.clear", R(0))>>)

pwm_fan_ramp_code(min_duty_cycle) ==
    <<I("fan.on", R(0))>> \o start_ramp_code(min_duty_cycle, TRUE)

(* a stop() that only signals and returns while the thread still runs *)
JoinedAtOnce(t) == TRUE

(* GPIOThread.stop() at line 166 returns once the thread has exited *)
Joined(t) == threads[t].state = "dead"

InitPlat ==
    /\ fan = FALSE
    /\ pwm = [on |-> FALSE, duty |-> R(0), hz |-> 100]
    /\ current_fan_speed_percent = R(100)
    /\ _ramp_thread = None
    /\ threads = [t \in ThreadIds |-> NoThread]
    /\ ctl = [op |-> "__init__", todo |-> <<>>, args |-> NoRamp, again |-> FALSE]
    /\ stopped = {}

(* The control thread calls a method: its code becomes the work to do *)
Call(op, code, args) ==
    /\ ctl.todo = <<>>
    /\ ctl' = [op |-> op, todo |-> code, args |-> args, again |-> (ctl.op = op)]
    /\ UNCHANGED <<fan, pwm, current_fan_speed_percent, _ramp_thread, threads, stopped, pidVars, seqVars>>

CallFanOn(p) == Call("fan_on", fan_on_code(p), <<p, 0, 0>>)
CallFanOff == Call("fan_off", fan_off_code, NoRamp)
CallSetDutyCycle(p) == Call("set_duty_cycle", set_duty_cycle_code(p), <<p, 0, 0>>)
CallSetPwmFrequency(f) == Call("set_pwm_frequency", set_pwm_frequency_code(f), NoRamp)
CallPwmFanRamp(a) == Call("pwm_fan_ramp", pwm_fan_ramp_code(a[2]), a)
CallStartRamp(a, background) == Call("_start_ramp", start_ramp_code(a[2], background), a)
CallStopRamp == Call("_stop_ramp", stop_ramp_code, NoRamp)

Next_i == Head(ctl.todo)
Advance == ctl' = [ctl EXCEPT !.todo = Tail(ctl.todo)]
At(i) == ctl.todo # <<>> /\ Next_i.i = i

(* self.fan.on() / self.fan.off() *)
FanPin ==
    /\ At("fan.on") \/ At("fan.off")
    /\ fan' = At("fan.on")
    /\ Advance
    /\ UNCHANGED <<pwm, current_fan_speed_percent, _ramp_thread, threads, stopped, pidVars, seqVars>>

(* _stop_ramp, lines 165-166: nothing to do without a thread, else stopping.set() *)
StopSet ==
    /\ At("stop.set")
    /\ IF _ramp_thread = None
       THEN /\ ctl' = [ctl EXCEPT !.todo = SubSeq(ctl.todo, 4, Len(ctl.todo))]
            /\ UNCHANGED threads
       ELSE /\ threads' = [threads EXCEPT ![_ramp_thread].stopping = TRUE,
                                          ![_ramp_thread].kstop = threads[_ramp_thread].k]
            /\ Advance
    /\ UNCHANGED <<fan, pwm, current_fan_speed_percent, _ramp_thread, stopped, pidVars, seqVars>>

(* _stop_ramp, line 166: the join inside GPIOThread.stop(); line 160: join() *)
Join ==
    /\ At("stop.join") \/ At("thread.join")
    /\ Joined(_ramp_thread)
    /\ Advance
    /\ UNCHANGED <<fan, pwm, current_fan_speed_percent, _ramp_thread, threads, stopped, pidVars, seqVars>>

(* _stop_ramp, line 167, and _start_ramp, line 161: self._ramp_thread = None *)
StopClear ==
    /\ At("stop.clear")
    /\ _ramp_thread' = None
    /\ stopped' = stopped \cup {_ramp_thread}
    /\ Advance
    /\ UNCHANGED <<fan, pwm, current_fan_speed_percent, threads, pidVars, seqVars>>

(* self.pwm.start(), change_duty_cycle(), stop(), change_frequency() by the control thread *)
PwmCall ==
    /\ \/ At("pwm.start") /\ pwm' = [pwm EXCEPT !.on = TRUE, !.duty = Next_i.v]
       \/ At("pwm.change") /\ pwm' = [pwm EXCEPT !.duty = Next_i.v]
       \/ At("pwm.stop") /\ pwm' = [pwm EXCEPT !.on = FALSE]
       \/ At("pwm.freq") /\ pwm' = [pwm EXCEPT !.hz = Next_i.v[1]]
    /\ Advance
    /\ UNCHANGED <<fan, current_fan_speed_percent, _ramp_thread, threads, stopped, pidVars, seqVars>>

(* self.current_fan_speed_percent = ... by the control thread *)
SetCurrent ==
    /\ At("cur")
    /\ current_fan_speed_percent' = Next_i.v
    /\ Advance
    /\ UNCHANGED <<fan, pwm, _ramp_thread, threads, stopped, pidVars, seqVars>>

(* _start_ramp, line 157: a new GPIOThread object *)
ThreadNew ==
    /\ At("thread.new")
    /\ \E t \in ThreadIds :
          /\ threads[t].state = "unborn"
          /\ \A o \in ThreadIds : o < t => threads[o].state # "unborn"
          /\ _ramp_thread' = t
          /\ threads' = [threads EXCEPT ![t] = [NoThread EXCEPT !.state = "new", !.args = ctl.args]]
    /\ Advance
    /\ UNCHANGED <<fan, pwm, current_fan_speed_percent, stopped, pidVars, seqVars>>

(* _start_ramp, line 158: start() clears stopping and runs _ramp_device *)
ThreadStart ==
    /\ At("thread.start")
    /\ threads' = [threads EXCEPT ![_ramp_thread].state = "running",
                                  ![_ramp_thread].stopping = FALSE,
                                  ![_ramp_thread].pc = "compute"]
    /\ Advance
    /\ UNCHANGED <<fan, pwm, current_fan_speed_percent, _ramp_thread, stopped, pidVars, seqVars>>

Exit(t, exc) == [threads EXCEPT ![t].state = "dead", ![t].pc = "none", ![t].raised = exc]

(* _ramp_device, lines 170-177 *)
RampCompute(t) ==
    /\ Alive(t) /\ threads[t].pc = "compute"
    /\ LET a == threads[t].args
           r == RampSequence(a[1], a[2], a[3])
       IN  threads' = IF r.raised # "none" THEN Exit(t, r.raised)
                      ELSE [threads EXCEPT ![t].sequence = r.sequence, ![t].pc = "write"]
    /\ UNCHANGED <<fan, pwm, current_fan_speed_percent, _ramp_thread, ctl, stopped, pidVars, seqVars>>

Frame(t) == FanSpeedPercent(threads[t].sequence[threads[t].k])

(* a loop that passes over every second value of the sequence *)
NextFrameIndex_skip(t) ==
    IF threads[t].k + 2 <= Len(threads[t].sequence) THEN threads[t].k + 2
    ELSE threads[t].k + 1

(* line 179: the for loop takes the values of the sequence one after the other *)
NextFrameIndex(t) == threads[t].k + 1

(* _ramp_device, line 184, into set_duty_cycle, line 108: the frame is written *)
RampWrite(t) ==
    /\ Alive(t) /\ threads[t].pc = "write"
    /\ LET fan_speed_percent == FanSpeedPercent(threads[t].sequence[NextFrameIndex(t)])
       IN  /\ threads' = [threads EXCEPT ![t].k = NextFrameIndex(t),
                                         ![t].pc = "cur",
                                         ![t].written = Append(@, fan_speed_percent)]
           /\ pwm' = [pwm EXCEPT !.duty = PwmDutyCycle(fan_speed_percent)]
    /\ UNCHANGED <<fan, current_fan_speed_percent, _ramp_thread, ctl, stopped, pidVars, seqVars>>

(* set_duty_cycle, line 109, then _ramp_device, line 185 *)
RampCurrent(t) ==
    /\ Alive(t) /\ threads[t].pc \in {"cur", "cur2"}
    /\ current_fan_speed_percent' = Frame(t)
    /\ threads' = [threads EXCEPT ![t].pc = IF @ = "cur" THEN "cur2" ELSE "wait"]
    /\ UNCHANGED <<fan, pwm, _ramp_thread, ctl, stopped, pidVars, seqVars>>

(* a wait that never sees the stopping event *)
WaitSignalled_never == FALSE

(* line 186: stopping.wait(delay) returns True when the event is set *)
WaitSignalled == threads[_ramp_thread].stopping

(* _ramp_device, lines 186-187 and the end of the loop: the wait returns *)
RampWait(t) ==
    /\ Alive(t) /\ threads[t].pc = "wait"
    /\ threads' =
          IF _ramp_thread = None THEN Exit(t, "AttributeError")
          ELSE IF WaitSignalled THEN Exit(t, "none")
          ELSE IF threads[t].k = Len(threads[t].sequence) THEN Exit(t, "none")
          ELSE [threads EXCEPT ![t].pc = "write"]
    /\ UNCHANGED <<fan, pwm, current_fan_speed_percent, _ramp_thread, ctl, stopped, pidVars, seqVars>>

NextRamp ==
    \/ \E p \in Speeds : CallFanOn(p)
    \/ CallFanOff
    \/ \E p \in Speeds : CallSetDutyCycle(p)
    \/ \E f \in Frequencies : CallSetPwmFrequency(f)
    \/ \E a \in RampArgs : CallPwmFanRamp(a)
    \/ \E a \in RampArgs, background \in BOOLEAN : CallStartRamp(a, background)
    \/ CallStopRamp
    \/ FanPin
    \/ StopSet
    \/ Join
    \/ StopClear
    \/ PwmCall
    \/ SetCurrent
    \/ ThreadNew
    \/ ThreadStart
    \/ \E t \in ThreadIds : RampCompute(t)
    \/ \E t \in ThreadIds : RampWrite(t)
    \/ \E t \in ThreadIds : RampCurrent(t)
    \/ \E t \in ThreadIds : RampWait(t)

-----------------------------------------------------------------------------
(* _ramp_device as a function of its arguments: the fan speed percent of   *)
(* every frame an undisturbed ramp passes to set_duty_cycle                *)

OnTimes == {Norm(n, 2 * FPS) : n \in 1 .. MaxHalfFrames} \cup {R(5)}
Percents == {0, 1, 20, 30, 45, 50, 100}

(* a sequence that lacks the final pinned value *)
RampFrames_nofinal(on_time, min_duty_cycle, max_duty_cycle) ==
    LET r == RampSequence(on_time, min_duty_cycle, max_duty_cycle)
    IN  [raised |-> r.raised,
         frames |-> [n \in 1 .. Len(r.sequence) - 1 |-> FanSpeedPercent(r.sequence[n])]]

(* lines 170-184 *)
RampFrames(on_time, min_duty_cycle, max_duty_cycle) ==
    LET r == RampSequence(on_time, min_duty_cycle, max_duty_cycle)
    IN  [raised |-> r.raised,
         frames |-> [n \in 1 .. Len(r.sequence) |-> FanSpeedPercent(r.sequence[n])]]

InitSeqVars ==
    /\ ramp_in = NoRamp
    /\ ramp_out = [raised |-> "none", frames |-> <<>>]

RampDevice(on_time, min_duty_cycle, max_duty_cycle) ==
    /\ min_duty_cycle <= max_duty_cycle
    /\ ramp_in' = <<on_time, min_duty_cycle, max_duty_cycle>>
    /\ ramp_out' = RampFrames(on_time, min_duty_cycle, max_duty_cycle)
    /\ UNCHANGED <<pidVars, platVars>>

NextSeq ==
    \E on_time \in OnTimes, min_duty_cycle \in Percents, max_duty_cycle \in Percents :
        RampDevice(on_time, min_duty_cycle, max_duty_cycle)

-----------------------------------------------------------------------------
(* The specifications: the controller alone, the platform alone and the    *)
(* ramp sequence alone                                                     *)

InitPID == InitPIDVars /\ InitPlat /\ InitSeqVars
SpecPID == InitPID /\ [][NextPID]_vars

InitRamp == InitPlat /\ InitSeqVars /\ InitPIDVars /\ call.args.pb = 1 /\ call.args.ti = 1
            /\ call.args.td = 0 /\ call.args.x = R(0)
SpecRamp == InitRamp /\ [][NextRamp]_vars

SpecSeq == InitRamp /\ [][NextSeq]_vars

-----------------------------------------------------------------------------
(* Properties of the PID controller *)

IntegralBound == RAbs(RDiv(pid.center, pid.ki))

(* C1: after construction and after every update call, the integral       *)
(* accumulator inter lies in [-|center/ki|, |center/ki|].                 *)
C1_AntiWindup ==
    (constructed /\ call.op \in {"__init__", "update"}) =>
        /\ RLe(RNeg(IntegralBound), pid.inter)
        /\ RLe(pid.inter, IntegralBound)

(* an update whose raw integral exceeded the limit and was clamped to it *)
C1_Witness ==
    /\ constructed
    /\ call.op = "update"
    /\ call.args.dt > 0
    /\ pid.inter = IntegralBound
    /\ ~RIsZero(IntegralBound)
    /\ RLt(IntegralBound, RMul(pid.error, R(call.args.dt)))

(* C2: an update called with zero elapsed time raises nothing and returns *)
(* a control output.                                                      *)
C2_ZeroDtAbsorbed ==
    (call.op = "update" /\ call.args.dt = 0) => call.raised = "none"

(* C3: a construction or set_gains with pb = 0 or ti = 0 raises at that   *)
(* call, a failed construction leaves no controller to call, and every    *)
(* update that returns has computed its output from finite gains.         *)
C3_InvalidTuningFailsFast ==
    /\ (call.op \in {"__init__", "set_gains"} /\ (call.args.pb = 0 \/ call.args.ti = 0))
          => call.raised = "ZeroDivisionError"
    /\ ~constructed => call.op = "__init__"
    /\ (call.op = "update" /\ call.raised = "none")
          => /\ IsNumber(pid.kp) /\ IsNumber(pid.ki) /\ IsNumber(pid.kd)
             /\ IsNumber(pid.u)

(* an update that returned after a set_gains with ti = 0 had failed *)
C3_Witness ==
    /\ call.op = "update"
    /\ call.raised = "none"
    /\ RMul(pid.ki, R(2)) # pid.kp
    /\ RMul(pid.ki, R(1)) # pid.kp
    /\ RMul(pid.kp, R(2)) # pid.ki

(* C4: in every state of a constructed controller |inter| <= inter_max.   *)
C4_AlwaysClamped ==
    constructed =>
        /\ RLe(RNeg(pid.inter_max), pid.inter)
        /\ RLe(pid.inter, pid.inter_max)

(* C5: set_target(x) leaves set_point = x, error = inter = derv = 0 and   *)
(* last_update = now, and leaves kp, ki, kd, center, inter_max and last   *)
(* as they were.                                                          *)
C5_SetTargetResets ==
    [][(call'.op = "set_target" /\ calls' # calls) =>
          /\ pid'.set_point = call'.args.x
          /\ pid'.error = R(0)
          /\ pid'.inter = R(0)
          /\ pid'.derv = R(0)
          /\ pid'.last_update = now'
          /\ pid'.kp = pid.kp
          /\ pid'.ki = pid.ki
          /\ pid'.kd = pid.kd
          /\ pid'.center = pid.center
          /\ pid'.inter_max = pid.inter_max
          /\ pid'.last = pid.last]_vars

(* set_target called after an update that had left a nonzero integral and *)
(* derivative, at a later time than that update                           *)
C5_Witness ==
    /\ call.op = "set_target"
    /\ ~RIsZero(pid.i)
    /\ ~RIsZero(pid.d)
    /\ pid.inter = R(0)
    /\ pid.set_point = R(150)
    /\ pid.last_update = 2

(* C6: for pb # 0 and ti # 0, construction and set_gains succeed and      *)
(* leave kp = -1/pb, ki = kp/ti, kd = kp*td and inter_max = |center/ki|,  *)
(* with kp < 0 whenever pb > 0.                                           *)
C6_Gains ==
    (call.op \in {"__init__", "set_gains"} /\ call.args.pb # 0 /\ call.args.ti # 0) =>
        /\ call.raised = "none"
        /\ RMul(get_k(pid)[1], R(call.args.pb)) = R(-1)
        /\ RMul(get_k(pid)[2], R(call.args.ti)) = get_k(pid)[1]
        /\ get_k(pid)[3] = RMul(get_k(pid)[1], R(call.args.td))
        /\ RMul(pid.inter_max, RAbs(pid.ki)) = RAbs(pid.center)
        /\ RLe(R(0), pid.inter_max)
        /\ (call.args.pb > 0 => RLt(pid.kp, R(0)))

(* a set_gains that changed all three gains and the integral limit *)
C6_Witness ==
    /\ call.op = "set_gains"
    /\ call.args.pb = 2 /\ call.args.ti = 2 /\ call.args.td = 1
    /\ get_k(pid) = <<<<-1, 2>>, <<-1, 4>>, <<-1, 2>>>>
    /\ pid.inter_max = R(2)
    /\ ~RIsZero(pid.u)

-----------------------------------------------------------------------------
(* Properties of the fan ramp *)

DirectWrites == {"pwm.start", "pwm.change", "pwm.stop", "pwm.freq", "cur"}
Cancelled(t) ==
    /\ threads[t].state = "dead"
    /\ threads[t].stopping
    /\ threads[t].k >= 1
    /\ threads[t].k < Len(threads[t].sequence)
Completed(t) ==
    /\ threads[t].state = "dead"
    /\ threads[t].k >= 1
    /\ threads[t].k = Len(threads[t].sequence)

(* C7: at most one ramp worker is alive at any moment, and when the       *)
(* control thread creates and starts a new worker every older one has     *)
(* already exited.                                                        *)
C7_RampExclusive ==
    /\ \A t1, t2 \in ThreadIds : (Alive(t1) /\ Alive(t2)) => t1 = t2
    /\ (At("thread.new") \/ At("thread.start")) => \A t \in ThreadIds : ~Alive(t)

(* a second ramp running after the first one was cancelled part way *)
C7_Witness ==
    /\ Cancelled(1)
    /\ Alive(2)
    /\ threads[2].k >= 1

(* C8: once _stop_ramp has returned for a worker, that worker has exited  *)
(* and writes no further frame.                                           *)
C8_JoinOnStop ==
    [][\A t \in stopped : /\ threads[t].state = "dead"
                          /\ threads'[t].state = "dead"
                          /\ threads'[t].k = threads[t].k]_vars

(* _stop_ramp has returned after cancelling a ramp part way *)
C8_Witness ==
    /\ ctl.op = "_stop_ramp"
    /\ ctl.todo = <<>>
    /\ \E t \in stopped : Cancelled(t)

(* C9: whenever the control thread is about to write the PWM or           *)
(* current_fan_speed_percent, no ramp worker is running.                  *)
C9_SingleWriter ==
    (ctl.todo # <<>> /\ Next_i.i \in DirectWrites) => \A t \in ThreadIds : ~Alive(t)

(* C10: a step of _stop_ramp taken while no ramp runs changes neither the *)
(* fan pin, the PWM nor current_fan_speed_percent and is never blocked; a *)
(* _stop_ramp that directly follows a _stop_ramp changes nothing at all.  *)
C10_StopIdempotent ==
    [][(ctl.op = "_stop_ramp" /\ ctl.todo # <<>> /\ \A t \in ThreadIds : ~Alive(t)) =>
          /\ ENABLED (StopSet \/ Join \/ StopClear)
          /\ (ctl' # ctl) =>
                /\ UNCHANGED <<fan, pwm, current_fan_speed_percent>>
                /\ ctl.again => UNCHANGED <<_ramp_thread, threads, stopped>>
                /\ ctl'.todo = <<>> => _ramp_thread' = None]_vars

(* a second _stop_ramp in a row has returned, after a ramp that ran to    *)
(* its end, with the PWM on                                                *)
C10_Witness ==
    /\ ctl.op = "_stop_ramp"
    /\ ctl.again
    /\ ctl.todo = <<>>
    /\ pwm.on
    /\ \E t \in stopped : Completed(t) /\ current_fan_speed_percent = R(100)

(* C11: the frames a ramp worker has written are the first frames of its  *)
(* computed sequence, in order and without a gap, and a worker that has   *)
(* exited without having been signalled to stop has written all of them.  *)
C11_FrameOrder ==
    \A t \in ThreadIds :
        LET w == threads[t].written
            q == threads[t].sequence
        IN  /\ Len(w) <= Len(q)
            /\ \A n \in 1 .. Len(w) : w[n] = FanSpeedPercent(q[n])
            /\ (threads[t].state = "dead" /\ ~threads[t].stopping) => Len(w) = Len(q)

(* one ramp has run to its end and another was cancelled after two frames *)
C11_Witness ==
    \E t, o \in ThreadIds :
        /\ Completed(t)
        /\ threads[t].written = <<R(50), R(75), R(100)>>
        /\ Cancelled(o)
        /\ threads[o].written = <<R(50), R(75)>>

(* C12: when a ramp worker that was never signalled to stop exits, it has *)
(* written at least one frame, and its last frame and                     *)
(* current_fan_speed_percent both equal max_duty_cycle.                   *)
C12_RampCompletion ==
    [][\A t \in ThreadIds :
          (Alive(t) /\ threads'[t].state = "dead" /\ ~threads'[t].stopping) =>
              /\ Len(threads'[t].written) >= 1
              /\ threads'[t].written[Len(threads'[t].written)] = R(threads[t].args[3])
              /\ current_fan_speed_percent' = R(threads[t].args[3])]_vars

-----------------------------------------------------------------------------
(* Properties of the ramp sequence *)

Computed == ramp_in # NoRamp
LastFrame == ramp_out.frames[Len(ramp_out.frames)]

C14_FrameCount ==
    Computed =>
        /\ Len(ramp_out.frames) >= 1
        /\ ramp_in[3] # 0 =>
              Len(ramp_out.frames) =
                  Trunc(RMul(R(FPS), ramp_in[1]))
                  - Trunc(RDiv(RMul(RMul(R(FPS), ramp_in[1]), R(ramp_in[2])), R(ramp_in[3])))
                  + 1

(* C15: for 0 < min <= max the fan speed percentages applied by a ramp,   *)
(* the starting value min_duty_cycle followed by every frame, never       *)
(* decrease and all lie between min_duty_cycle and max_duty_cycle.        *)
C15_MonotoneBounded ==
    (Computed /\ ramp_out.raised = "none" /\ ramp_in[2] > 0) =>
        LET applied == <<R(ramp_in[2])>> \o ramp_out.frames
        IN  /\ \A n \in 1 .. Len(applied) - 1 : RLe(applied[n], applied[n + 1])
            /\ \A n \in 1 .. Len(applied) :
                  RLe(R(ramp_in[2]), applied[n]) /\ RLe(applied[n], R(ramp_in[3]))

(* C16: once the stopping event of a running ramp has been set, the       *)
(* worker starts the emission of no further frame, wherever in its loop   *)
(* the worker is at that moment.                                          *)
C16_NoFrameAfterSignal ==
    \A t \in ThreadIds : threads[t].stopping => threads[t].k = threads[t].kstop

(* C16: once the stopping event of a running ramp has been set, the       *)
(* worker starts the emission of at most one further frame, and none once *)
(* it has reached a wait: it has exited by the first wait after the       *)
(* signal.                                                                *)
C16_OneFrameAfterSignal ==
    \A t \in ThreadIds :
        threads[t].stopping =>
            /\ threads[t].k <= threads[t].kstop + 1
            /\ threads[t].k = threads[t].kstop + 1 => threads[t].pc \in {"cur", "cur2", "wait", "none"}

(* a worker signalled between a wait that timed out and the next write:   *)
(* it has emitted one more frame and exited with frames left              *)
C16_Witness ==
    \E t \in ThreadIds :
        /\ threads[t].state = "dead"
        /\ threads[t].stopping
        /\ threads[t].kstop >= 1
        /\ threads[t].k = threads[t].kstop + 1
        /\ threads[t].k < Len(threads[t].sequence)

(* two controllers in the same state self are given the targets x1 and x2 *)
(* at time t, then the same measurements at the same times: the results   *)
(* of their first update, and of a second one when the first returned     *)
SameD(a, b) == a.raised = b.raised /\ a.self.d = b.self.d /\ a.self.derv = b.self.derv

TwoRuns(self, x1, x2) ==
    \A t \in Times, current \in Measurements, t1 \in Times, t2 \in Times :
        (now <= t /\ t <= t1 /\ t1 <= t2) =>
            LET a == update(set_target(self, x1, t), current, t1, t2)
                b == update(set_target(self, x2, t), current, t1, t2)
            IN  /\ SameD(a, b)
                /\ a.raised = "none" =>
                      \A current2 \in Measurements, t3 \in Times :
                          t2 <= t3 => SameD(update(a.self, current2, t3, t3),
                                            update(b.self, current2, t3, t3))

(* C17: two controllers in the same state that are given different        *)
(* targets at the same time and then the same measurements at the same    *)
(* times compute the same derivative term d in every following update,    *)
(* and an update that returns leaves d = kd * (current - last) / dt.      *)
C17_DerivativeOnMeasurement ==
    /\ constructed => \A x1 \in Targets, x2 \in Targets : x1 # x2 => TwoRuns(pid, x1, x2)
    /\ (constructed /\ call.op = "update" /\ call.raised = "none") =>
          pid.d = RMul(pid.kd, pid.derv)

(* an update that returned a non-zero derivative term after the target    *)
(* had been moved to 150                                                  *)
C17_Witness ==
    /\ constructed
    /\ call.op = "update"
    /\ call.raised = "none"
    /\ pid.set_point = R(150)
    /\ ~RIsZero(pid.d)

(* C18: from the return of fan_on(p) or of set_duty_cycle(p) with         *)
(* override_ramping=True until the next call of the control thread, the   *)
(* PWM duty cycle is 100 - p, current_fan_speed_percent is p and no ramp  *)
(* worker runs.                                                           *)
C18_OverrideSticks ==
    (ctl.op \in {"fan_on", "set_duty_cycle"} /\ ctl.todo = <<>>) =>
        /\ pwm.duty = RSub(R(100), ctl.args[1])
        /\ current_fan_speed_percent = ctl.args[1]
        /\ \A t \in ThreadIds : ~Alive(t)

(* set_duty_cycle(30) has returned after a ramp from 50 to 100 was        *)
(* cancelled part way                                                     *)
C18_Witness ==
    /\ ctl.op = "set_duty_cycle"
    /\ ctl.todo = <<>>
    /\ ctl.args[1] = R(30)
    /\ pwm.duty = R(70)
    /\ \E t \in stopped : Cancelled(t) /\ threads[t].written[1] = R(50)

(* C19: from the return of fan_off() until the next call of the control   *)
(* thread, current_fan_speed_percent is 0 and no step writes the PWM duty *)
(* cycle.                                                                 *)
C19_FanOffFinal ==
    [][(ctl.op = "fan_off" /\ ctl.todo = <<>>) =>
          /\ current_fan_speed_percent = R(0)
          /\ ctl' = ctl => /\ pwm'.duty = pwm.duty
                           /\ current_fan_speed_percent' = R(0)]_vars

(* C20: a set_gains that raises leaves kp, ki, kd and inter_max as they   *)
(* were before the call.                                                  *)
C20_FailedSetGainsChangesNothing ==
    [][(calls' = calls + 1 /\ call'.op = "set_gains" /\ call'.raised # "none") =>
          /\ pid'.kp = pid.kp
          /\ pid'.ki = pid.ki
          /\ pid'.kd = pid.kd
          /\ pid'.inter_max = pid.inter_max]_vars

====
